---------------------------- MODULE Spec2Model ----------------------------
(***************************************************************************)
(* Model of aggregator.py: the RSS aggregation run (main), the per-category *)
(* collector (process_category), the social-pulse collector                *)
(* (process_social_pulse), the summarizer wrapper (get_ai_response), the    *)
(* feed merge (load_existing_items, update_xml_feed), the seen-link scan    *)
(* (get_seen_urls) and the content fetch chain (fetch_url_content).         *)
(*                                                                         *)
(* Time is an integer count of clock ticks since the epoch.  The clock of  *)
(* the process (datetime.now) has sub-second resolution; the pubDate of a  *)
(* feed file is written with whole seconds only.                           *)
(***************************************************************************)
EXTENDS Integers, Sequences, FiniteSets, TLC

\* ------------------------------------------------------------------ bounds
MaxRuns == 2            \* runs of main() explored
TicksPerSecond == 2     \* resolution of the model clock below one second

\* ------------------------------------------------------- program constants
RetentionDays == 14     \* datetime.timedelta(days=14)
MinContentLen == 600    \* len(text) > 600
MaxAttempts == 3        \* range(3)

BASE_REPO_URL == "https://github.com/USER/REPO"
Epoch == 0              \* "1970-01-01T00:00:00Z"
Unparsable == -1        \* a read_log.txt content date_parser.parse raises on

Second == TicksPerSecond
Day == 24 * 60 * 60 * Second
T0 == 1 * Day           \* a whole second, the reference instant of the inputs

\* the instants datetime.now() returns at the start of a run
NowChoices == {T0 + 1, T0 + RetentionDays * Day, T0 + RetentionDays * Day + Second + 1}

\* ------------------------------------------------------------------ config
\* config['categories'], in configuration (iteration) order
Categories == <<"tech", "general", "world">>
CatSet == {Categories[i] : i \in DOMAIN Categories}

\* The entries feedparser.parse returns for the rss sources of a category,
\* concatenated in source order.  has_published = FALSE: no 'published' key.
Entry(u, hp, p) == [link |-> u, has_published |-> hp, published |-> p]
Late == T0 + 15 * Day   \* a publish instant after every run of the model
AtRun == T0 + RetentionDays * Day   \* a publish instant that is also a run instant
DefaultSources ==
    [ c \in CatSet |->
        CASE c = "tech"    -> << Entry("u4", FALSE, 0) >>
          [] c = "general" -> << Entry("u1", TRUE, AtRun),
                                 Entry("u2", TRUE, Late),
                                 Entry("u3", TRUE, Late) >>
          [] OTHER         -> << >> ]
\* two categories whose sources offer the same article
SharedLinkSources ==
    [ c \in CatSet |->
        CASE c = "tech"    -> << Entry("u2", TRUE, Late) >>
          [] c = "general" -> << Entry("u2", TRUE, Late),
                                 Entry("u3", TRUE, AtRun) >>
          [] OTHER         -> << >> ]
Urls == {"u1", "u2", "u3", "u4"}

\* ------------------------------------------------ summarizer output domain
Absent == "<absent>"    \* a key the JSON object does not have
Theme(t, h) == [title |-> t, expanded_html |-> h]
NoThemes == [is_list |-> TRUE, elems |-> << >>]

\* what json.loads(response.text) can be: a non-object, an object without
\* "themes", an object whose "themes" is null, or an object with a list
JsonValues ==
    { [is_object |-> FALSE, has_themes |-> FALSE, themes |-> NoThemes],
      [is_object |-> TRUE,  has_themes |-> FALSE, themes |-> NoThemes],
      [is_object |-> TRUE,  has_themes |-> TRUE,
       themes |-> [is_list |-> FALSE, elems |-> << >>]] }
    \cup
    { [is_object |-> TRUE, has_themes |-> TRUE,
       themes |-> [is_list |-> TRUE, elems |-> s]] :
        s \in { << >>,
                << Theme("A & B", "h1") >>,
                << Theme("Plain", "h1") >>,
                << Theme("A & B", "h2") >>,
                << Theme(Absent, "h1") >>,
                << Theme("Plain", Absent) >> } }

\* outcome of client.generate_content + json.loads
AiOutcomes ==
    { [kind |-> "api_error", value |-> [is_object |-> FALSE, has_themes |-> FALSE, themes |-> NoThemes]],
      [kind |-> "unparsable", value |-> [is_object |-> FALSE, has_themes |-> FALSE, themes |-> NoThemes]] }
    \cup { [kind |-> "json", value |-> v] : v \in JsonValues }

\* ----------------------------------------------------------- html helpers
\* html.escape(title)
HtmlEscape(t) == IF t = "A & B" THEN "A &amp; B" ELSE t

\* hashlib.sha256(...).hexdigest(): distinct digests for distinct contents
Sha256(h) == CASE h = "h1" -> 101 [] h = "h2" -> 102 [] OTHER -> 100

PlaceholderHtml == "placeholder_html"

\* the hrefs of the <a> elements of a description
Hrefs(d) == CASE d = "h1" -> {"u1", "u2"} [] d = "h2" -> {"u3"} [] OTHER -> {}
\* whether "<root>" + description + "</root>" is well-formed XML
WellFormed(d) == d # "h2"

\* ------------------------------------------------------- fetch strategies
\* the article parser tried before the lightweight extractor
Strategies_Reordered == << "newspaper", "trafilatura", "crawl4ai" >>

\* the strategies of fetch_url_content, in the order the code tries them
Strategies == << "trafilatura", "newspaper", "crawl4ai" >>
NoText == -1            \* None

\* ------------------------------------------------------------------- state
VARIABLES
    sourceEntries,\* [category -> entries]: what the rss sources offer, the same in every run
    files,        \* [category -> [exists, items]]: the <category>.xml files
    stateFile,    \* read_log.txt: [exists, value], value an instant or Unparsable
    runs,         \* runs of main() started so far
    pc,           \* position of main()
    now,          \* main: now
    last_run,     \* main: last_run
    seen_urls,    \* main: seen_urls
    catIdx,       \* index of the category being processed
    entryIdx,     \* index of the feed entry being processed
    articles,     \* process_category: the urls of articles
    signals,      \* process_social_pulse: the urls of signals
    themes,       \* themes / pulse_themes handed to update_xml_feed
    \* ---- observation of the run (history)
    stateAtStart, \* stateFile when the run started
    attempted,    \* categories whose process_category has returned or raised
    written,      \* categories whose file this run has written
    pulseDone,    \* process_social_pulse has returned or raised
    aiThrew,      \* callers ("pulse" or a category) whose summarizer call raised
    lastResp,     \* the latest summarizer outcome kind
    abortCause,   \* why main() ended with an exception, "none" otherwise
    lastEntry,    \* the latest feed entry handled and what became of it
    lastCall,     \* the latest update_xml_feed call
    seenPrev,     \* the urls of the previous run's seen_urls that a feed item still carries
    fetches,      \* this run's fetch_url_content calls: [who, link, ok], who a category or "pulse"
    aiCalls,      \* this run's get_ai_response calls: the caller, a category or "pulse"
    \* ---- one call of fetch_url_content
    fPc,          \* "idle", "running" or "returned"
    fAttempt,     \* attempt, 0 .. MaxAttempts - 1
    fStrategy,    \* index into Strategies of the strategy to invoke next
    fResult,      \* length of the returned text, NoText for None
    fTexts,       \* lengths of the texts the strategies have produced
    fRaises,      \* how many invocations raised (each caught by its "except: pass")
    fLog          \* what the call has done so far: << attempt, strategy >> for an
                  \* invocation, << attempt, "sleep" >> for a sleep

vars == << sourceEntries, files, stateFile, runs, pc, now, last_run, seen_urls, catIdx, entryIdx,
           articles, signals, themes, stateAtStart, attempted, written, pulseDone,
           aiThrew, lastResp, abortCause, lastEntry, lastCall, seenPrev,
           fetches, aiCalls,
           fPc, fAttempt, fStrategy, fResult, fTexts, fRaises, fLog >>

mainVars == << sourceEntries, files, stateFile, runs, pc, now, last_run, seen_urls, catIdx, entryIdx,
               articles, signals, themes, stateAtStart, attempted, written, pulseDone,
               aiThrew, lastResp, abortCause, lastEntry, lastCall, seenPrev,
               fetches, aiCalls >>

fetchVars == << fPc, fAttempt, fStrategy, fResult, fTexts, fRaises, fLog >>

\* feedparser.parse(rss_url).entries over the sources of category c
FeedEntries(c) == sourceEntries[c]

NoFile == [exists |-> FALSE, items |-> << >>]
NoEntry == [link |-> "none", verdict |-> "none", step |-> "none"]
NoCall == [category |-> "none", before |-> NoFile, new_themes |-> << >>,
           now |-> 0, outcome |-> "none"]


\* ------------------------------------------------------------ get_seen_urls
\* the hrefs one item description contributes: the inner parse of a
\* description that is not well-formed raises and is passed over
DescriptionHrefs(d) == IF WellFormed(d) THEN Hrefs(d) ELSE {}

\* a description of a feed item of some category holds an anchor to u
Carried(u, fs) ==
    \E c \in CatSet : \E i \in DOMAIN fs[c].items : u \in Hrefs(fs[c].items[i].description)

GetSeenUrls(fs) ==
    UNION { { u \in Urls : \E i \in DOMAIN fs[c].items :
                              u \in DescriptionHrefs(fs[c].items[i].description) }
            : c \in { k \in CatSet : fs[k].exists } }

\* -------------------------------------------------------- get_ai_response
EmptyThemesJson == [is_object |-> TRUE, has_themes |-> TRUE, themes |-> NoThemes]

\* get_ai_response without its try/except
GetAiResponse_Propagates(outcome) ==
    [ raised |-> outcome.kind # "json",
      result |-> IF outcome.kind = "json" THEN outcome.value ELSE EmptyThemesJson ]

\* try: json.loads(generate_content(...).text)  except: {"themes": []}
\* raised: whether an exception leaves get_ai_response
GetAiResponse(outcome) ==
    [ raised |-> FALSE,
      result |-> IF outcome.kind = "json" THEN outcome.value ELSE EmptyThemesJson ]

\* result.get('themes', []) and len(themes) of the two collectors:
\* a non-object has no .get, a null "themes" has no len
ThemesOfResult(result) ==
    IF ~result.is_object THEN [raises |-> TRUE, themes |-> << >>]
    ELSE LET t == IF result.has_themes THEN result.themes ELSE NoThemes
         IN  IF ~t.is_list THEN [raises |-> TRUE, themes |-> << >>]
             ELSE [raises |-> FALSE, themes |-> t.elems]

\* ------------------------------------------------------ load_existing_items
\* PyRSS2Gen writes pubDate with whole seconds; date_parser.parse reads it back
FormatDate_Exact(t) == t

FormatDate(t) == t - (t % Second)

LoadExistingItems(file, cutoff) ==
    IF ~file.exists THEN << >>
    ELSE SelectSeq(file.items, LAMBDA e : e.pubDate > cutoff)

\* ---------------------------------------------------------- update_xml_feed
\* a guid that hashes the run's time into the content hash
NewItem_GuidFromNow(category, theme, t) ==
    [ title       |-> HtmlEscape(theme.title),
      link        |-> BASE_REPO_URL,
      description |-> theme.expanded_html,
      guid        |-> [category |-> category, kind |-> "sha256",
                       value |-> Sha256(theme.expanded_html) + t],
      pubDate     |-> t ]

NewItem(category, theme, t) ==
    [ title       |-> HtmlEscape(theme.title),
      link        |-> BASE_REPO_URL,
      description |-> theme.expanded_html,
      guid        |-> [category |-> category, kind |-> "sha256",
                       value |-> Sha256(theme.expanded_html)],
      pubDate     |-> t ]

PlaceholderItem(category, t) ==
    [ title       |-> "No recent thematic stories",
      link        |-> BASE_REPO_URL,
      description |-> PlaceholderHtml,
      guid        |-> [category |-> category, kind |-> "placeholder", value |-> t],
      pubDate     |-> t ]

NewItems(category, new_themes, t) ==
    [ i \in 1..Len(new_themes) |-> NewItem(category, new_themes[i], t) ]

\* update_xml_feed without the fallback block
WithFallback_None(items, category, t) == items

\* the placeholder appended to every feed
WithFallback_Always(items, category, t) == Append(items, PlaceholderItem(category, t))

\* if not items: items.append(placeholder)
WithFallback(items, category, t) ==
    IF items = << >> THEN << PlaceholderItem(category, t) >> ELSE items

\* items.sort(key=lambda i: i.pubDate, reverse=True): stable, newest first
RECURSIVE InsertByPubDate(_, _)
InsertByPubDate(sorted, x) ==
    IF sorted = << >> THEN << x >>
    ELSE IF Head(sorted).pubDate >= x.pubDate
         THEN << Head(sorted) >> \o InsertByPubDate(Tail(sorted), x)
         ELSE << x >> \o sorted

RECURSIVE SortByPubDateDesc(_)
SortByPubDateDesc(s) ==
    IF s = << >> THEN << >>
    ELSE InsertByPubDate(SortByPubDateDesc(SubSeq(s, 1, Len(s) - 1)), s[Len(s)])

\* rss.write_xml: every item as written to the file
Serialize(items) ==
    [ i \in 1..Len(items) |-> [items[i] EXCEPT !.pubDate = FormatDate(items[i].pubDate)] ]

\* the loop over new_themes raises on a theme without "title" or "expanded_html"
ThemesRaise(new_themes) ==
    \E i \in DOMAIN new_themes :
        new_themes[i].title = Absent \/ new_themes[i].expanded_html = Absent

\* the items update_xml_feed hands to the serializer
MergedItems(category, new_themes, t, file) ==
    LET cutoff == t - RetentionDays * Day
        items  == LoadExistingItems(file, cutoff) \o NewItems(category, new_themes, t)
    IN  SortByPubDateDesc(WithFallback(items, category, t))

IoOutcomes == {"ok", "open_failed", "write_failed"}

\* the file after update_xml_feed and how the call ended
\* (open(...,"w") that fails leaves the file; a failing write leaves it truncated)
UpdateXmlFeed(category, new_themes, t, file, io) ==
    IF ThemesRaise(new_themes) THEN [file |-> file, outcome |-> "theme_error"]
    ELSE IF io = "open_failed" THEN [file |-> file, outcome |-> "open_failed"]
    ELSE IF io = "write_failed"
         THEN [file |-> [exists |-> TRUE, items |-> << >>], outcome |-> "write_failed"]
    ELSE [file |-> [exists |-> TRUE,
                    items |-> Serialize(MergedItems(category, new_themes, t, file))],
          outcome |-> "ok"]

\* get_ai_response followed by result.get('themes', []) and len(themes)
SummarizerThemes(outcome) ==
    LET g == GetAiResponse(outcome)
    IN  IF g.raised THEN [error |-> "summarizer_error", themes |-> << >>]
        ELSE LET r == ThemesOfResult(g.result)
             IN  IF r.raises THEN [error |-> "result_error", themes |-> << >>]
                 ELSE [error |-> "none", themes |-> r.themes]

\* how a summarizer outcome stands to RESPONSE_SCHEMA
RespClass(outcome) ==
    IF outcome.kind # "json" THEN outcome.kind
    ELSE IF ~outcome.value.is_object THEN "not_object"
    ELSE IF ~outcome.value.has_themes THEN "no_themes_key"
    ELSE IF ~outcome.value.themes.is_list THEN "themes_not_list"
    ELSE IF ThemesRaise(outcome.value.themes.elems) THEN "theme_missing_field"
    ELSE "valid"

\* -------------------------------------------------------------------- Init
\* before the first run, with read_log.txt as the deployment left it
InitMainWith(sf, src) ==
    /\ sourceEntries = src
    /\ files = [c \in CatSet |-> NoFile]
    /\ stateFile = sf
    /\ runs = 0
    /\ pc = "idle"
    /\ now = Epoch
    /\ last_run = Epoch
    /\ seen_urls = {}
    /\ catIdx = 1
    /\ entryIdx = 1
    /\ articles = << >>
    /\ signals = << >>
    /\ themes = << >>
    /\ stateAtStart = sf
    /\ attempted = {}
    /\ written = {}
    /\ pulseDone = FALSE
    /\ aiThrew = {}
    /\ lastResp = "none"
    /\ abortCause = "none"
    /\ lastEntry = NoEntry
    /\ lastCall = NoCall
    /\ seenPrev = {}
    /\ fetches = << >>
    /\ aiCalls = << >>

\* a fresh checkout: no read_log.txt
InitMain == InitMainWith([exists |-> FALSE, value |-> Epoch], DefaultSources)

InitFetch ==
    /\ fPc = "idle"
    /\ fAttempt = 0
    /\ fStrategy = 1
    /\ fResult = NoText
    /\ fTexts = {}
    /\ fRaises = 0
    /\ fLog = << >>

Init == InitMain /\ InitFetch

\* read_log.txt absent, or present with a content that is not a date
\* (empty, truncated, hand-edited)
InitAnyStateFile ==
    /\ \E sf \in {[exists |-> FALSE, value |-> Epoch], [exists |-> TRUE, value |-> Unparsable]} :
         InitMainWith(sf, DefaultSources)
    /\ InitFetch

\* a fresh checkout whose 'tech' and 'general' sources offer the same article
InitSharedLink ==
    /\ InitMainWith([exists |-> FALSE, value |-> Epoch], SharedLinkSources)
    /\ InitFetch

\* ------------------------------------------------------------------- main
\* now, last_run, seen_urls, client; then the first category
StartRun ==
    /\ pc \in {"idle", "done", "aborted"}
    /\ runs < MaxRuns
    /\ \E n \in NowChoices : now' = n
    /\ runs' = runs + 1
    /\ IF stateFile.exists /\ stateFile.value = Unparsable
       THEN \* date_parser.parse(last_run_str) raises and leaves main()
            /\ pc' = "aborted"
            /\ abortCause' = "state_parse_error"
            /\ UNCHANGED << last_run, seen_urls, seenPrev >>
       ELSE /\ last_run' = IF stateFile.exists THEN stateFile.value ELSE Epoch
            /\ seen_urls' = GetSeenUrls(files)
            /\ seenPrev' = { u \in seen_urls : Carried(u, files) }
            /\ pc' = "collect"
            /\ abortCause' = "none"
    /\ catIdx' = 1
    /\ entryIdx' = 1
    /\ articles' = << >>
    /\ signals' = << >>
    /\ themes' = << >>
    /\ stateAtStart' = stateFile
    /\ attempted' = {}
    /\ written' = {}
    /\ pulseDone' = FALSE
    /\ aiThrew' = {}
    /\ lastResp' = "none"
    /\ lastEntry' = NoEntry
    /\ lastCall' = NoCall
    /\ fetches' = << >>
    /\ aiCalls' = << >>
    /\ UNCHANGED << files, stateFile >>
    /\ UNCHANGED sourceEntries
    /\ UNCHANGED fetchVars

\* the cutoff test written with < instead of <=
FilterVerdict_NotStrict(e, lr, seen) ==
    IF ~e.has_published THEN "no_date"
    ELSE IF e.published < lr THEN "old"
    ELSE IF e.link \in seen THEN "seen"
    ELSE "fetch"

\* the seen test left out
FilterVerdict_IgnoresSeen(e, lr, seen) ==
    IF ~e.has_published THEN "no_date"
    ELSE IF e.published <= lr THEN "old"
    ELSE "fetch"

\* what the entry filter of both collectors decides before any fetch
FilterVerdict(e, lr, seen) ==
    IF ~e.has_published THEN "no_date"
    ELSE IF e.published <= lr THEN "old"
    ELSE IF e.link \in seen THEN "seen"
    ELSE "fetch"

\* fetch_url_content returns a text or None
FetchResults == {"text", "none"}

\* process_category: one entry of the loop over feed.entries
CollectEntry ==
    /\ pc = "collect"
    /\ entryIdx <= Len(FeedEntries(Categories[catIdx]))
    /\ LET e == FeedEntries(Categories[catIdx])[entryIdx]
           v == FilterVerdict(e, last_run, seen_urls)
       IN  IF v # "fetch"
           THEN /\ lastEntry' = [link |-> e.link, verdict |-> v, step |-> "category"]
                /\ UNCHANGED << seen_urls, articles, fetches >>
           ELSE \E content \in FetchResults :
                /\ fetches' = Append(fetches, [who |-> Categories[catIdx], link |-> e.link,
                                               ok |-> content = "text"])
                /\ IF content = "text"
                   THEN /\ seen_urls' = seen_urls \cup {e.link}
                        /\ articles' = Append(articles, e.link)
                        /\ lastEntry' = [link |-> e.link, verdict |-> "fetched", step |-> "category"]
                   ELSE /\ lastEntry' = [link |-> e.link, verdict |-> "failed", step |-> "category"]
                        /\ UNCHANGED << seen_urls, articles >>
    /\ entryIdx' = entryIdx + 1
    /\ UNCHANGED << files, stateFile, runs, pc, now, last_run, catIdx, signals, themes,
                    stateAtStart, attempted, written, pulseDone, aiThrew, lastResp,
                    abortCause, lastCall, seenPrev, aiCalls >>
    /\ UNCHANGED sourceEntries
    /\ UNCHANGED fetchVars

\* process_category after the loop: no articles, or the summarizer call
Summarize ==
    /\ pc = "collect"
    /\ entryIdx > Len(FeedEntries(Categories[catIdx]))
    /\ attempted' = attempted \cup {Categories[catIdx]}
    /\ IF articles = << >>
       THEN /\ themes' = << >>
            /\ pc' = "update"
            /\ UNCHANGED << aiThrew, lastResp, abortCause, aiCalls >>
       ELSE \E outcome \in AiOutcomes :
              LET r == SummarizerThemes(outcome)
              IN  /\ aiCalls' = Append(aiCalls, Categories[catIdx])
                  /\ lastResp' = RespClass(outcome)
                  /\ aiThrew' = IF outcome.kind # "json"
                                THEN aiThrew \cup {Categories[catIdx]} ELSE aiThrew
                  /\ themes' = r.themes
                  /\ IF r.error # "none"
                     THEN /\ pc' = "aborted"
                          /\ abortCause' = r.error
                     ELSE /\ pc' = "update"
                          /\ UNCHANGED abortCause
    /\ UNCHANGED << files, stateFile, runs, now, last_run, seen_urls, catIdx, entryIdx,
                    articles, signals, stateAtStart, written, pulseDone, lastEntry,
                    lastCall, seenPrev, fetches >>
    /\ UNCHANGED sourceEntries
    /\ UNCHANGED fetchVars

\* update_xml_feed(category, themes, now), then the next category or the pulse
UpdateFeed ==
    /\ pc = "update"
    /\ \E io \in IoOutcomes :
         LET c == Categories[catIdx]
             u == UpdateXmlFeed(c, themes, now, files[c], io)
         IN  /\ files' = [files EXCEPT ![c] = u.file]
             /\ lastCall' = [category |-> c, before |-> files[c], new_themes |-> themes,
                             now |-> now, outcome |-> u.outcome]
             /\ IF u.outcome = "ok"
                THEN /\ written' = written \cup {c}
                     /\ UNCHANGED abortCause
                     /\ IF catIdx < Len(Categories)
                        THEN /\ pc' = "collect"
                             /\ catIdx' = catIdx + 1
                        ELSE /\ pc' = "pulse"
                             /\ UNCHANGED catIdx
                ELSE /\ pc' = "aborted"
                     /\ abortCause' = u.outcome
                     /\ UNCHANGED << written, catIdx >>
    /\ entryIdx' = 1
    /\ articles' = << >>
    /\ themes' = << >>
    /\ UNCHANGED << stateFile, runs, now, last_run, seen_urls, signals, stateAtStart,
                    attempted, pulseDone, aiThrew, lastResp, lastEntry, seenPrev,
                    fetches, aiCalls >>
    /\ UNCHANGED sourceEntries
    /\ UNCHANGED fetchVars

\* process_social_pulse: one entry of the loop over the 'general' entries
PulseEntry ==
    /\ pc = "pulse"
    /\ entryIdx <= Len(FeedEntries("general"))
    /\ LET e == FeedEntries("general")[entryIdx]
           v == FilterVerdict(e, last_run, seen_urls)
       IN  IF v # "fetch"
           THEN /\ lastEntry' = [link |-> e.link, verdict |-> v, step |-> "pulse"]
                /\ UNCHANGED << signals, fetches >>
           ELSE \E content \in FetchResults :
                /\ fetches' = Append(fetches, [who |-> "pulse", link |-> e.link,
                                               ok |-> content = "text"])
                /\ IF content = "text"
                   THEN /\ signals' = Append(signals, e.link)
                        /\ lastEntry' = [link |-> e.link, verdict |-> "fetched", step |-> "pulse"]
                   ELSE /\ lastEntry' = [link |-> e.link, verdict |-> "failed", step |-> "pulse"]
                        /\ UNCHANGED signals
    /\ entryIdx' = entryIdx + 1
    /\ UNCHANGED << files, stateFile, runs, pc, now, last_run, seen_urls, catIdx, articles,
                    themes, stateAtStart, attempted, written, pulseDone, aiThrew, lastResp,
                    abortCause, lastCall, seenPrev, aiCalls >>
    /\ UNCHANGED sourceEntries
    /\ UNCHANGED fetchVars

\* a pool of one excerpt is already summarized
TooFewSignals_One(sig) == Len(sig) < 1

\* if len(signals) < 2: return []
TooFewSignals(sig) == Len(sig) < 2

\* process_social_pulse after the loop, and main's "if pulse_themes:"
PulseSummarize ==
    /\ pc = "pulse"
    /\ entryIdx > Len(FeedEntries("general"))
    /\ pulseDone' = TRUE
    /\ IF TooFewSignals(signals)
       THEN /\ themes' = << >>
            /\ pc' = "write_state"
            /\ UNCHANGED << aiThrew, lastResp, abortCause, aiCalls >>
       ELSE \E outcome \in AiOutcomes :
              LET r == SummarizerThemes(outcome)
              IN  /\ aiCalls' = Append(aiCalls, "pulse")
                  /\ lastResp' = RespClass(outcome)
                  /\ aiThrew' = IF outcome.kind # "json"
                                THEN aiThrew \cup {"pulse"} ELSE aiThrew
                  /\ themes' = r.themes
                  /\ IF r.error # "none"
                     THEN /\ pc' = "aborted"
                          /\ abortCause' = r.error
                     ELSE /\ pc' = IF r.themes # << >> THEN "pulse_update" ELSE "write_state"
                          /\ UNCHANGED abortCause
    /\ UNCHANGED << files, stateFile, runs, now, last_run, seen_urls, catIdx, entryIdx,
                    articles, signals, stateAtStart, attempted, written, lastEntry,
                    lastCall, seenPrev, fetches >>
    /\ UNCHANGED sourceEntries
    /\ UNCHANGED fetchVars

\* update_xml_feed('general', pulse_themes, now)
PulseUpdate ==
    /\ pc = "pulse_update"
    /\ \E io \in IoOutcomes :
         LET u == UpdateXmlFeed("general", themes, now, files["general"], io)
         IN  /\ files' = [files EXCEPT !["general"] = u.file]
             /\ lastCall' = [category |-> "general", before |-> files["general"],
                             new_themes |-> themes, now |-> now, outcome |-> u.outcome]
             /\ IF u.outcome = "ok"
                THEN /\ pc' = "write_state"
                     /\ UNCHANGED abortCause
                ELSE /\ pc' = "aborted"
                     /\ abortCause' = u.outcome
    /\ themes' = << >>
    /\ UNCHANGED << stateFile, runs, now, last_run, seen_urls, catIdx, entryIdx, articles,
                    signals, stateAtStart, attempted, written, pulseDone, aiThrew, lastResp,
                    lastEntry, seenPrev, fetches, aiCalls >>
    /\ UNCHANGED sourceEntries
    /\ UNCHANGED fetchVars

\* a state write that also runs when main() is left by an exception
WriteState_OnAbort ==
    /\ pc \in {"write_state", "aborted"}
    /\ stateFile # [exists |-> TRUE, value |-> now]
    /\ stateFile' = [exists |-> TRUE, value |-> now]
    /\ pc' = IF pc = "write_state" THEN "done" ELSE pc
    /\ UNCHANGED << files, runs, now, last_run, seen_urls, catIdx, entryIdx, articles,
                    signals, themes, stateAtStart, attempted, written, pulseDone, aiThrew,
                    lastResp, abortCause, lastEntry, lastCall, seenPrev, fetches, aiCalls >>
    /\ UNCHANGED sourceEntries
    /\ UNCHANGED fetchVars

\* with open(STATE_PATH, 'w'): f.write(now.isoformat())
WriteState ==
    /\ pc = "write_state"
    /\ stateFile' = [exists |-> TRUE, value |-> now]
    /\ pc' = "done"
    /\ UNCHANGED << files, runs, now, last_run, seen_urls, catIdx, entryIdx, articles,
                    signals, themes, stateAtStart, attempted, written, pulseDone, aiThrew,
                    lastResp, abortCause, lastEntry, lastCall, seenPrev, fetches, aiCalls >>
    /\ UNCHANGED sourceEntries
    /\ UNCHANGED fetchVars

Next ==
    \/ StartRun
    \/ CollectEntry
    \/ Summarize
    \/ UpdateFeed
    \/ PulseEntry
    \/ PulseSummarize
    \/ PulseUpdate
    \/ WriteState

Spec == Init /\ [][Next]_vars

\* a run started when the clock has not gone back since the previous run
StartRunLater == StartRun /\ now' >= now

NextMonotoneClock ==
    \/ StartRunLater
    \/ CollectEntry
    \/ Summarize
    \/ UpdateFeed
    \/ PulseEntry
    \/ PulseSummarize
    \/ PulseUpdate
    \/ WriteState

\* the runs of main() under a clock that never goes back
SpecMonotoneClock == Init /\ [][NextMonotoneClock]_vars

\* the runs of main() over sources that share an article
SpecSharedLink == InitSharedLink /\ [][Next]_vars

\* the runs of main() from any read_log.txt the first run can find
SpecStateFile == InitAnyStateFile /\ [][Next]_vars

\* --------------------------------------------------------- fetch_url_content
\* what one strategy invocation can do: raise, or hand back a text length
\* (NoText for None); success is result.success of the crawler
Outcome(r, ok, n) == [raises |-> r, success |-> ok, len |-> n]
TextLens == {0, 500, MinContentLen, MinContentLen + 1}
StrategyOutcomes(s) ==
    IF s = "crawl4ai"
    THEN {Outcome(TRUE, FALSE, NoText)}
         \cup {Outcome(FALSE, ok, n) : ok \in BOOLEAN, n \in TextLens \cup {NoText}}
    ELSE {Outcome(TRUE, TRUE, NoText)}
         \cup {Outcome(FALSE, TRUE, n) : n \in TextLens \cup {NoText}}

\* the threshold test written with >= instead of >
StrategySucceeds_AtLeast(s, o) ==
    /\ ~o.raises
    /\ o.len # NoText
    /\ o.len # 0
    /\ s = "crawl4ai" => o.success
    /\ o.len >= MinContentLen

\* the condition under which a strategy's text is returned
\*   trafilatura: text and len(text) > 600
\*   newspaper:   len(article.text) > 600   (len(None) raises, caught)
\*   crawl4ai:    result.success and result.markdown and len(result.markdown) > 600
StrategySucceeds(s, o) ==
    /\ ~o.raises
    /\ o.len # NoText
    /\ o.len # 0
    /\ s = "crawl4ai" => o.success
    /\ o.len > MinContentLen

\* the text a strategy invocation produced, NoText when it produced none
ProducedText(s, o) ==
    IF o.raises \/ o.len = NoText \/ (s = "crawl4ai" /\ ~o.success) THEN NoText ELSE o.len

\* fetch_url_content(url) is called
FetchCall ==
    /\ fPc \in {"idle", "returned"}
    /\ fPc' = "running"
    /\ fAttempt' = 0
    /\ fStrategy' = 1
    /\ fResult' = NoText
    /\ fTexts' = {}
    /\ fRaises' = 0
    /\ fLog' = << >>
    /\ UNCHANGED mainVars

\* an exception of a strategy leaves fetch_url_content
FetchStrategy_RaisePropagates ==
    /\ fPc = "running"
    /\ \E o \in StrategyOutcomes(Strategies[fStrategy]) :
         LET s == Strategies[fStrategy]
             t == ProducedText(s, o)
         IN  /\ fLog' = Append(fLog, << fAttempt, s >>)
             /\ fTexts' = IF t = NoText THEN fTexts ELSE fTexts \cup {t}
             /\ fRaises' = IF o.raises THEN fRaises + 1 ELSE fRaises
             /\ IF o.raises
                THEN /\ fPc' = "raised"
                     /\ UNCHANGED << fAttempt, fStrategy, fResult >>
                ELSE IF StrategySucceeds(s, o)
                THEN /\ fPc' = "returned"
                     /\ fResult' = o.len
                     /\ UNCHANGED << fAttempt, fStrategy >>
                ELSE IF fStrategy < Len(Strategies)
                THEN /\ fStrategy' = fStrategy + 1
                     /\ UNCHANGED << fPc, fAttempt, fResult >>
                ELSE IF fAttempt < MaxAttempts - 1
                THEN /\ fAttempt' = fAttempt + 1
                     /\ fStrategy' = 1
                     /\ UNCHANGED << fPc, fResult >>
                ELSE /\ fPc' = "returned"
                     /\ fResult' = NoText
                     /\ UNCHANGED << fAttempt, fStrategy >>
    /\ UNCHANGED mainVars

\* one strategy of one attempt: return its text, or go on to the next
\* strategy, the next attempt, or "return None" after the last attempt.
\* The loop body ends with the third strategy's "except: pass": the next
\* attempt follows at once, the function has no sleep.
FetchStrategy ==
    /\ fPc = "running"
    /\ \E o \in StrategyOutcomes(Strategies[fStrategy]) :
         LET s == Strategies[fStrategy]
             t == ProducedText(s, o)
         IN  /\ fLog' = Append(fLog, << fAttempt, s >>)
             /\ fTexts' = IF t = NoText THEN fTexts ELSE fTexts \cup {t}
             /\ fRaises' = IF o.raises THEN fRaises + 1 ELSE fRaises
             /\ IF StrategySucceeds(s, o)
                THEN /\ fPc' = "returned"
                     /\ fResult' = o.len
                     /\ UNCHANGED << fAttempt, fStrategy >>
                ELSE IF fStrategy < Len(Strategies)
                THEN /\ fStrategy' = fStrategy + 1
                     /\ UNCHANGED << fPc, fAttempt, fResult >>
                ELSE IF fAttempt < MaxAttempts - 1
                THEN /\ fAttempt' = fAttempt + 1
                     /\ fStrategy' = 1
                     /\ UNCHANGED << fPc, fResult >>
                ELSE /\ fPc' = "returned"
                     /\ fResult' = NoText
                     /\ UNCHANGED << fAttempt, fStrategy >>
    /\ UNCHANGED mainVars

NextFetch ==
    \/ FetchCall
    \/ FetchStrategy

SpecFetch == Init /\ [][NextFetch]_vars

\* the runs of main() and, apart from them, the calls of fetch_url_content:
\* either machine runs while the other has not started
NextFetchAndRun ==
    \/ fPc = "idle" /\ Next
    \/ pc = "idle" /\ NextFetch

SpecFetchAndRun == Init /\ [][NextFetchAndRun]_vars

\* ================================================================== claims
RunEnded == pc \in {"done", "aborted"}
Cutoff(t) == t - RetentionDays * Day
InFeed(e, items) == \E j \in DOMAIN items : items[j] = e
IsPlaceholder(it, c, t) ==
    /\ it.guid = [category |-> c, kind |-> "placeholder", value |-> t]
    /\ it.description = PlaceholderHtml
    /\ it.pubDate = FormatDate(t)

\* C1: no two items of a category's written feed have the same guid, after
\* any sequence of update_xml_feed calls.
C1_NoDuplicateGuids ==
    \A c \in CatSet : \A i, j \in DOMAIN files[c].items :
        i # j => files[c].items[i].guid # files[c].items[j].guid

\* C2: after a successful update_xml_feed(category, themes, now), every
\* existing item published before now - 14 days is absent from the written
\* feed and every existing item published at or after now - 14 days is in it.
C2_RetentionInclusive ==
    lastCall.outcome = "ok" =>
        \A i \in DOMAIN lastCall.before.items :
            LET e == lastCall.before.items[i]
                out == files[lastCall.category].items
            IN  /\ e.pubDate < Cutoff(lastCall.now) => ~InFeed(e, out)
                /\ e.pubDate >= Cutoff(lastCall.now) => InFeed(e, out)

\* C3: when the summarizer call of a category raises, the categories before
\* it have their files written, the exception does not leave get_ai_response,
\* and (no other fault occurring in the run) the categories after it are
\* processed and written and the run writes the state file.
OtherFault == abortCause \in {"result_error", "theme_error", "open_failed", "write_failed"}
C3_SummarizerFailureIsolated ==
    \A i \in DOMAIN Categories :
        Categories[i] \in aiThrew =>
            /\ \A j \in 1..(i - 1) : Categories[j] \in written
            /\ abortCause # "summarizer_error"
            /\ (RunEnded /\ ~OtherFault) =>
                  /\ pc = "done"
                  /\ \A j \in (i + 1)..Len(Categories) :
                        Categories[j] \in attempted /\ Categories[j] \in written
                  /\ stateFile = [exists |-> TRUE, value |-> now]

C3_Witness ==
    /\ pc = "done"
    /\ "general" \in aiThrew
    /\ written = CatSet
    /\ stateFile = [exists |-> TRUE, value |-> now]

\* C4: a failure to write one category's file does not abort the run: the
\* later categories are processed and the run reaches its end.
C4_WriteFailureIsolated ==
    lastCall.outcome \in {"open_failed", "write_failed"} =>
        /\ pc # "aborted"
        /\ RunEnded => (attempted = CatSet /\ pulseDone)

\* C5: a summarizer response that fails schema validation counts as zero
\* themes: no theme of it reaches update_xml_feed and no error leaves
\* process_category, process_social_pulse or update_xml_feed.
SchemaInvalid ==
    {"unparsable", "not_object", "no_themes_key", "themes_not_list", "theme_missing_field"}
C5_InvalidResponseIsZeroThemes ==
    lastResp \in SchemaInvalid =>
        /\ abortCause \notin {"result_error", "theme_error"}
        /\ pc \in {"update", "pulse_update"} => themes = << >>

\* C6: read_log.txt is written only after every category and the social
\* pulse step have been attempted; until then, and in a run that stops
\* before, it holds the value it had when the run started.
C6_StateWrittenLast ==
    /\ pc # "done" => stateFile = stateAtStart
    /\ stateFile # stateAtStart => (attempted = CatSet /\ pulseDone)
    /\ pc = "done" => (attempted = CatSet /\ pulseDone /\ stateFile.value = now)

C6_Witness ==
    /\ pc = "done"
    /\ runs = 2
    /\ stateAtStart.exists
    /\ stateFile # stateAtStart

\* C7: a url of the seen set is not fetched (nor put into a batch or pool)
\* in the same run, and a url of the previous run's seen set is not fetched
\* in this run while a feed item still carries it.
FetchedInStep(u) ==
    /\ entryIdx' = entryIdx + 1
    /\ lastEntry'.link = u
    /\ lastEntry'.verdict \in {"fetched", "failed"}
C7_SeenNeverFetched ==
    [][ \A u \in Urls :
          (pc \in {"collect", "pulse"} /\
             (u \in seen_urls \/ (u \in seenPrev /\ Carried(u, files))))
          => ~FetchedInStep(u) ]_vars

\* C8: every successful update_xml_feed writes at least one item, and with
\* no new theme and no surviving existing item it writes exactly the
\* placeholder.
C8_PlaceholderWhenEmpty ==
    lastCall.outcome = "ok" =>
        LET out == files[lastCall.category].items
        IN  /\ Len(out) >= 1
            /\ ( /\ lastCall.new_themes = << >>
                 /\ \A i \in DOMAIN lastCall.before.items :
                       lastCall.before.items[i].pubDate <= Cutoff(lastCall.now) )
               => ( /\ Len(out) = 1
                    /\ IsPlaceholder(out[1], lastCall.category, lastCall.now) )

C8_Witness ==
    /\ lastCall.outcome = "ok"
    /\ lastCall.new_themes = << >>
    /\ lastCall.before.items # << >>
    /\ \A i \in DOMAIN lastCall.before.items :
          lastCall.before.items[i].pubDate < Cutoff(lastCall.now)
    /\ Len(files[lastCall.category].items) = 1
    /\ IsPlaceholder(files[lastCall.category].items[1], lastCall.category, lastCall.now)

\* C9: within a feed, the guid of an item built from a theme depends on the
\* category and the theme's expanded_html alone: equal contents have equal
\* guids whatever the title and the run, different contents different guids.
ThemeItems(c) == { i \in DOMAIN files[c].items : files[c].items[i].guid.kind = "sha256" }
C9_GuidFromContent ==
    \A c \in CatSet : \A i, j \in ThemeItems(c) :
        /\ files[c].items[i].guid.category = c
        /\ (files[c].items[i].description = files[c].items[j].description)
             <=> (files[c].items[i].guid = files[c].items[j].guid)

C9_Witness ==
    \E c \in CatSet : \E i, j, k \in ThemeItems(c) :
        /\ files[c].items[i].description = files[c].items[j].description
        /\ files[c].items[i].title # files[c].items[j].title
        /\ files[c].items[i].pubDate # files[c].items[j].pubDate
        /\ files[c].items[i].guid = files[c].items[j].guid
        /\ files[c].items[k].description # files[c].items[i].description
        /\ files[c].items[k].guid # files[c].items[i].guid

\* C10: fetch_url_content returns a text only if a strategy produced a text
\* longer than 600, and returns None exactly when all 3 strategies of all 3
\* attempts were invoked and none produced a text longer than 600; a text
\* of 500 or of 600 characters is never returned.
C10_FetchThreshold ==
    fPc = "returned" =>
        /\ fResult # NoText => (fResult \in fTexts /\ fResult > MinContentLen)
        /\ fResult = NoText <=>
              ( /\ Len(fLog) = MaxAttempts * Len(Strategies)
                /\ \A t \in fTexts : t <= MinContentLen )
        /\ fResult \notin {500, MinContentLen}

C10_Witness ==
    /\ fPc = "returned"
    /\ fResult = NoText
    /\ {500, MinContentLen} \subseteq fTexts

\* ---------------------------------------------------------------------------
\* the entry process_category handles in the step being taken
CurrentEntry == FeedEntries(Categories[catIdx])[entryIdx]
PublishedAfter(e, lr) == e.has_published /\ e.published > lr
EntryOfLink(u) ==
    CHOOSE e \in UNION { {FeedEntries(c)[i] : i \in DOMAIN FeedEntries(c)} : c \in CatSet } :
        e.link = u

\* C11: an entry of a category source becomes a candidate article only if it
\* has a publish timestamp strictly after last_run.  An entry at or before
\* last_run, or without a timestamp, is not fetched and adds nothing to the
\* batch; an entry after last_run whose link is unseen is fetched, and when the
\* fetch returns a text the batch grows by exactly that one link.
C11_CandidateOnlyAfterLastRun ==
    [][ (pc = "collect" /\ entryIdx' = entryIdx + 1) =>
          LET e == CurrentEntry
              after == PublishedAfter(e, last_run)
          IN  /\ ~after => (articles' = articles /\ fetches' = fetches)
              /\ (after /\ e.link \notin seen_urls) =>
                    /\ Len(fetches') = Len(fetches) + 1
                    /\ fetches'[Len(fetches')].link = e.link
                    /\ IF fetches'[Len(fetches')].ok
                       THEN articles' = Append(articles, e.link)
                       ELSE articles' = articles
      ]_vars

\* an entry published exactly at last_run has been passed over as old
C11_Witness ==
    /\ lastEntry.step = "category"
    /\ lastEntry.verdict = "old"
    /\ EntryOfLink(lastEntry.link).published = last_run

\* C12: when read_log.txt is absent, or its content cannot be parsed as a
\* timestamp, the run takes last_run to be the epoch and goes on to process
\* every configured category; neither condition ends the run.
C12_StateFileDefaultsToEpoch ==
    (runs > 0 /\ (~stateAtStart.exists \/ stateAtStart.value = Unparsable)) =>
        /\ last_run = Epoch
        /\ abortCause # "state_parse_error"
        /\ (RunEnded /\ ~OtherFault /\ abortCause = "none") => attempted = CatSet

\* the links whose fetch failed in process_category of the run that is ending
FailedInCategoryStep ==
    { fetches[i].link : i \in { j \in DOMAIN fetches :
                                  ~fetches[j].ok /\ fetches[j].who # "pulse" } }

\* C13: a url whose fetch fails in a run is not added to seen_urls, and when
\* its entry is still offered in the next run the entry passes that run's
\* filter again: it is skipped neither as seen nor as older than the last_run
\* the earlier run wrote.  (A url some feed item links anyway is left out.)
C13_FailedFetchRetried ==
    [][ /\ (Len(fetches') = Len(fetches) + 1 /\ ~fetches'[Len(fetches')].ok) =>
              seen_urls' = seen_urls
        /\ (runs' = runs + 1 /\ pc' = "collect") =>
              \A u \in FailedInCategoryStep :
                  ~Carried(u, files) =>
                      FilterVerdict(EntryOfLink(u), last_run', seen_urls') = "fetch"
      ]_vars

\* lightweight extractor, article parser, headless crawler
ExpectedOrder == << "trafilatura", "newspaper", "crawl4ai" >>
InvokedInOrder ==
    \A i \in DOMAIN fLog :
        fLog[i] = << (i - 1) \div 3, ExpectedOrder[((i - 1) % 3) + 1] >>
NoSuccessYet == \A t \in fTexts : t <= MinContentLen

\* C14: within each attempt of fetch_url_content the strategies are invoked in
\* the fixed order lightweight extractor, article parser, headless crawler,
\* attempt after attempt; a strategy is only invoked while the call is running
\* and no earlier invocation has succeeded, so after a success no further
\* strategy or attempt is invoked for that url.
C14_FixedOrderStopOnSuccess ==
    /\ []InvokedInOrder
    /\ [][ (fLog' # fLog /\ fLog' # << >>) =>
              (fPc = "running" /\ NoSuccessYet /\ Len(fLog') = Len(fLog) + 1) ]_vars

\* the article parser of the second attempt succeeded and the call returned
C14_Witness ==
    /\ fPc = "returned"
    /\ fResult > MinContentLen
    /\ Len(fLog) = 5

\* C15: between a failed attempt and the next attempt fetch_url_content
\* sleeps: the first invocation of an attempt after the first is preceded by
\* a sleep.
C15_SleepBetweenAttempts ==
    \A i \in 2..Len(fLog) :
        fLog[i][1] > fLog[i - 1][1] => fLog[i - 1][2] = "sleep"

\* 3 attempts of 3 strategies
MaxInvocations == 3 * 3
FetchContained ==
    /\ fPc \in {"idle", "running", "returned"}
    /\ Len(fLog) <= MaxInvocations
    /\ fPc = "running" => Len(fLog) = 3 * fAttempt + (fStrategy - 1)
    /\ (fPc = "returned" /\ fResult = NoText) => Len(fLog) = MaxInvocations
    /\ fRaises <= Len(fLog)

\* C16: no failure of a strategy leaves fetch_url_content: after a strategy
\* raises or produces too little, the call is still running at the next
\* strategy or attempt, and it returns None only after all 9 invocations; the
\* call never makes more than 9.  In process_category a fetch that returned
\* None adds nothing and the collector goes on with the next entry.
C16_FetchFailuresContained ==
    /\ []FetchContained
    /\ [][ (Len(fetches') = Len(fetches) + 1 /\ ~fetches'[Len(fetches')].ok) =>
              /\ pc' = pc
              /\ entryIdx' = entryIdx + 1
              /\ abortCause' = "none"
              /\ UNCHANGED << seen_urls, articles, signals >> ]_vars

\* a call in which a strategy raised and a later one still returned a text
C16_Witness ==
    /\ fPc = "returned"
    /\ fRaises >= 1
    /\ fResult > MinContentLen

PulseCalls == Cardinality({ i \in DOMAIN aiCalls : aiCalls[i] = "pulse" })

\* C17: the social-pulse step calls the summarizer at most once per run, and
\* only with a pool of at least 2 excerpts.  With 0 or 1 excerpts it makes no
\* call and does not rewrite the 'general' feed: the latest update_xml_feed
\* call of the run stays the one of the last category.
C17_PulseNeedsTwoSignals ==
    /\ PulseCalls <= 1
    /\ PulseCalls = 1 => (pulseDone /\ Len(signals) >= 2)
    /\ pc = "pulse_update" => (PulseCalls = 1 /\ Len(signals) >= 2)
    /\ (pulseDone /\ Len(signals) < 2) =>
          /\ PulseCalls = 0
          /\ pc \in {"write_state", "done"}
          /\ lastCall.category = Categories[Len(Categories)]

\* a run whose pool held one excerpt has ended without a pulse call
C17_Witness ==
    /\ pulseDone
    /\ Len(signals) = 1
    /\ pc = "done"

Placeholders(items) == { i \in DOMAIN items : items[i].guid.kind = "placeholder" }

\* C18: a feed holds at most one placeholder.  update_xml_feed makes a new
\* placeholder only when no existing item (an earlier placeholder included)
\* survived and there is no new theme, so a new placeholder is the only item
\* written; a placeholder already in the feed is carried forward like any
\* other item while it is inside the 14-day window.
C18_AtMostOnePlaceholder ==
    /\ \A c \in CatSet : Cardinality(Placeholders(files[c].items)) <= 1
    /\ lastCall.outcome = "ok" =>
          LET out == files[lastCall.category].items
              old == lastCall.before.items
          IN  /\ \A i \in Placeholders(out) :
                    ~InFeed(out[i], old) =>
                        /\ Len(out) = 1
                        /\ lastCall.new_themes = << >>
                        /\ \A j \in DOMAIN old : old[j].pubDate <= Cutoff(lastCall.now)
              /\ \A j \in Placeholders(old) :
                    old[j].pubDate > Cutoff(lastCall.now) => InFeed(old[j], out)

\* an earlier run's placeholder written again next to a theme item
C18_Witness ==
    /\ lastCall.outcome = "ok"
    /\ lastCall.new_themes # << >>
    /\ \E j \in Placeholders(lastCall.before.items) :
          /\ lastCall.before.items[j].guid.value # lastCall.now
          /\ InFeed(lastCall.before.items[j], files[lastCall.category].items)

\* C19: within one run no url is in the article batches of two categories,
\* and none is both in a category's batch and in the social-pulse pool; the
\* pool only takes 'general' entries whose fetch in process_category of the
\* same run did not succeed.
C19_BatchesAndPoolDisjoint ==
    /\ \A i, j \in DOMAIN fetches :
          (fetches[i].ok /\ fetches[j].ok /\ fetches[i].who # fetches[j].who) =>
              fetches[i].link # fetches[j].link
    /\ \A i \in DOMAIN fetches :
          fetches[i].who = "pulse" =>
              \E j \in 1..(i - 1) :
                  /\ fetches[j].who = "general"
                  /\ fetches[j].link = fetches[i].link
                  /\ ~fetches[j].ok

\* 'tech' batched an article that 'general' offers too, 'general' passed it
\* over, and the pool took another 'general' entry
C19_Witness ==
    \E i, j \in DOMAIN fetches :
        /\ fetches[i].who = "tech" /\ fetches[i].ok
        /\ \E k \in DOMAIN FeedEntries("general") :
              FeedEntries("general")[k].link = fetches[i].link
        /\ fetches[j].who = "pulse" /\ fetches[j].ok
        /\ \A k \in DOMAIN fetches : fetches[k].link = fetches[i].link => k = i

\* the latest update_xml_feed call is the one of the social-pulse step
PulseWrote ==
    pulseDone /\ lastCall.category = "general" /\ lastCall.outcome = "ok"

\* what C20 says of the file the latest update_xml_feed call wrote, the new
\* items being stamped with the instant stamp
StampedWithin(stamp) ==
    lastCall.outcome = "ok" =>
        LET out == files[lastCall.category].items
            old == lastCall.before.items
        IN  /\ \A i \in DOMAIN out :
                  /\ out[i].pubDate > Cutoff(lastCall.now)
                  /\ out[i].pubDate <= lastCall.now
            /\ \A i \in DOMAIN out : ~InFeed(out[i], old) => out[i].pubDate = stamp
            /\ Len(out) >= Len(lastCall.new_themes)
            /\ PulseWrote =>
                  \A j \in DOMAIN old :
                      old[j].pubDate = stamp => InFeed(old[j], out)

\* C20 as stated: while the clock does not go back, every item of a written
\* feed has its pubDate in (now - 14 days, now], new themes and the
\* placeholder are stamped with exactly now, and the items the category step
\* wrote to 'general' are still there after the social-pulse rewrite.
C20_StampedExactlyNow == StampedWithin(lastCall.now)

\* C20 amended: the same, the stamp of the written items being now truncated
\* to the whole second.
C20_StampedNowToTheSecond == StampedWithin(lastCall.now - (lastCall.now % Second))

\* a social-pulse rewrite at an instant inside a second that kept the items of
\* the category step and a survivor of an earlier run
C20_Witness ==
    /\ PulseWrote
    /\ lastCall.now % Second # 0
    /\ \E j \in DOMAIN lastCall.before.items :
          lastCall.before.items[j].pubDate = lastCall.now - (lastCall.now % Second)
    /\ \E i \in DOMAIN files["general"].items :
          files["general"].items[i].pubDate < lastCall.now - Second

=============================================================================
